---- MODULE Spec2Model ----
(***************************************************************************)
(* A model of pdf2pptx4win: src/pdf2pptx.py (command line tool and the     *)
(* pdf_to_pptx function) and src/main.py (the earlier one-argument script).*)
(*                                                                         *)
(* One behaviour is one run: of the command line of pdf2pptx.py (entry     *)
(* "cli"), of a direct call of pdf2pptx.pdf_to_pptx (entry "api"), or of   *)
(* the script main.py (entry "main_py").                                   *)
(*                                                                         *)
(* Lengths are in thousandths of an inch (10.0 in = 10000), so that the    *)
(* table of aspect ratios keeps its three decimals.  Python's None is the  *)
(* empty tuple <<>> and a present value x is <<x>>.                        *)
(***************************************************************************)
EXTENDS Integers, Sequences, FiniteSets, TLC

VARIABLES
    entry,      \* which program runs: "cli", "api" or "main_py"
    argv,       \* the arguments of the run (args of main, or the call's arguments)
    npages,     \* len(pdf_doc) of the input file, when it exists
    pc,         \* position of the run
    call,       \* the parameters pdf_to_pptx was called with
    dpi,        \* the local dpi of pdf_to_pptx after lines 168-169
    dims,       \* (width_inches, height_inches)
    prs,        \* the Presentation: slide_width, slide_height, slides
    i,          \* loop index of the page loop
    temp_dir,   \* "none", "exists" or "removed"
    temp_files, \* the page indexes whose slide-<i>.png is in temp_dir
    out_file,   \* the file at output_path
    saves,      \* number of calls of prs.save
    raised,     \* the step that raised an exception, and the page it was at
    out,        \* what was printed, in order
    success,    \* "none", "True", "False": the value pdf_to_pptx returned
    exit_status \* <<>> while the process runs, <<code>> once it has exited

vars == <<entry, argv, npages, pc, call, dpi, dims, prs, i, temp_dir,
          temp_files, out_file, saves, raised, out, success, exit_status>>

-----------------------------------------------------------------------------
(* Bounds of the model *)

MaxPages == 3

-----------------------------------------------------------------------------
(* Program constants *)

target_height == 1024
DefaultDpi == 600
SimpleDpi == 300
MainPyDpi == 300

None == <<>>

\* Python truthiness of an optional number: None and 0 are false.
Truthy(x) == x # None /\ x[1] # 0

ratios ==
    ( "4:3"      :> <<10000, 7500>>  @@
      "16:9"     :> <<13333, 7500>>  @@
      "16:10"    :> <<13000, 8125>>  @@
      "a4"       :> <<11690, 8270>>  @@
      "letter"   :> <<11000, 8500>>  @@
      "wide"     :> <<13333, 7500>>  @@
      "standard" :> <<10000, 7500>>  @@
      "square"   :> <<10000, 10000>> @@
      "portrait" :> <<7500, 10000>> )

\* A fallback to the widescreen entry instead of "4:3".
RatiosDefault_wide == ratios["16:9"]

\* Line 38: the default of ratios.get.
RatiosDefault == ratios["4:3"]

\* Lines 18-38.
get_slide_dimensions(aspect_ratio, custom_width, custom_height) ==
    IF aspect_ratio = "custom" /\ Truthy(custom_width) /\ Truthy(custom_height)
    THEN <<custom_width[1], custom_height[1]>>
    ELSE IF aspect_ratio \in DOMAIN ratios
         THEN ratios[aspect_ratio]
         ELSE RatiosDefault

\* pptx.util.Inches: int(inches * 914400) English Metric Units.  With the
\* length in thousandths of an inch that is mils * 914400 / 1000, written
\* mils * 4572 / 5 to stay within 32-bit integers; int() truncates toward 0.
Inches(mils) ==
    IF mils >= 0 THEN (mils * 4572) \div 5
                 ELSE -(((-mils) * 4572) \div 5)

quality_settings ==
    ( "low" :> 150 @@ "medium" :> 300 @@ "high" :> 600 @@ "ultra" :> 1200 )

\* Lines 168-169.
ResolveDpi(d, quality) ==
    IF d = None /\ quality \in DOMAIN quality_settings
    THEN <<quality_settings[quality]>>
    ELSE d

argparse_aspect_choices ==
    { "4:3", "16:9", "16:10", "a4", "letter", "wide", "standard", "square",
      "portrait", "custom" }

Exists(path) == path = "doc.pdf"

-----------------------------------------------------------------------------
(* Inputs of a run *)

Tiers == { "low", "medium", "high", "ultra" }

Widths  == { None, <<0>>, <<8000>> }
Heights == { None, <<-1000>>, <<6000>> }

\* A command line of pdf2pptx.py; "bogus" is a keyword argparse rejects.
CliArgv ==
    [ input        : { "absent", "missing.pdf", "doc.pdf" },
      aspect       : { "4:3", "16:9", "a4", "portrait", "custom", "bogus" },
      width        : Widths,
      height       : Heights,
      quality      : Tiers,
      dpi          : { None, <<96>> },
      dpi_given    : { TRUE },
      list_aspects : BOOLEAN,
      simple       : BOOLEAN ]

\* The arguments of a direct call pdf_to_pptx(pdf_path, aspect_ratio=..., ...);
\* dpi_given = FALSE is a call that leaves the dpi parameter out.
ApiArgv ==
    { a \in [ input        : { "missing.pdf", "doc.pdf" },
              aspect       : { "4:3", "16:10", "custom", "3:2" },
              width        : Widths,
              height       : Heights,
              quality      : Tiers \cup { "best" },
              dpi          : { None, <<96>> },
              dpi_given    : BOOLEAN,
              list_aspects : { FALSE },
              simple       : { FALSE } ] :
        ~a.dpi_given => a.dpi = None }

\* A command line of main.py: python main.py [filename.pdf | help]
MainPyArgv ==
    [ input        : { "absent", "help", "missing.pdf", "doc.pdf" },
      aspect       : { "4:3" },
      width        : { None },
      height       : { None },
      quality      : { "high" },
      dpi          : { None },
      dpi_given    : { FALSE },
      list_aspects : { FALSE },
      simple       : { FALSE } ]

\* Page sizes in points (1/72 inch): portrait letter and a 16:9 page.
PageSizes == { <<612, 792>>, <<960, 540>> }

NoCall == [ aspect_ratio |-> "", custom_width |-> None, custom_height |-> None,
            quality |-> "", dpi |-> None ]

NoPrs == [ slide_width |-> 0, slide_height |-> 0, slides |-> <<>> ]

NoFile == [ state |-> "absent", slide_width |-> 0, slide_height |-> 0,
            slides |-> <<>> ]

NoRaise == [ step |-> "none", page |-> 0 ]

Raise(step, page) == [ step |-> step, page |-> page ]

Msg(kind, a, b) == [ kind |-> kind, a |-> a, b |-> b ]

Init ==
    /\ entry \in { "cli", "api", "main_py" }
    /\ argv \in CASE entry = "cli" -> CliArgv
                  [] entry = "api" -> ApiArgv
                  [] OTHER         -> MainPyArgv
    /\ npages \in IF Exists(argv.input) THEN 0 .. MaxPages ELSE { 0 }
    /\ pc = CASE entry = "cli" -> "main"
              [] entry = "api" -> "api_call"
              [] OTHER         -> "script"
    /\ call = NoCall
    /\ dpi = None
    /\ dims = <<0, 0>>
    /\ prs = NoPrs
    /\ i = 0
    /\ temp_dir = "none"
    /\ temp_files = {}
    /\ out_file = NoFile
    /\ saves = 0
    /\ raised = NoRaise
    /\ out = <<>>
    /\ success = "none"
    /\ exit_status = None

-----------------------------------------------------------------------------
(* main() of pdf2pptx.py *)

SysExit(code) ==
    /\ exit_status' = <<code>>
    /\ pc' = "exited"

\* Lines 241-306: parse_args. A missing positional input_pdf or a value
\* outside an option's choices is an argparse error: usage on stderr, exit 2.
MainParseArgs ==
    /\ pc = "main"
    /\ IF argv.input = "absent" \/ argv.aspect \notin argparse_aspect_choices
       THEN /\ out' = Append(out, Msg("usage_error", 0, 0))
            /\ SysExit(2)
       ELSE /\ pc' = "main_list"
            /\ UNCHANGED <<out, exit_status>>
    /\ UNCHANGED <<entry, argv, npages, call, dpi, dims, prs, i, temp_dir,
                   temp_files, out_file, saves, raised, success>>

\* Lines 308-321.
MainListAspects ==
    /\ pc = "main_list"
    /\ IF argv.list_aspects
       THEN /\ out' = Append(out, Msg("aspect_table", 0, 0))
            /\ SysExit(0)
       ELSE /\ pc' = "main_validate"
            /\ UNCHANGED <<out, exit_status>>
    /\ UNCHANGED <<entry, argv, npages, call, dpi, dims, prs, i, temp_dir,
                   temp_files, out_file, saves, raised, success>>

\* The validation without its test of the sign.
CustomDimensionsError_NoneOnly(a) ==
    /\ a.aspect = "custom"
    /\ \/ a.width = None
       \/ a.height = None

\* Lines 323-330.
CustomDimensionsError(a) ==
    /\ a.aspect = "custom"
    /\ \/ a.width = None
       \/ a.height = None
       \/ a.width[1] <= 0
       \/ a.height[1] <= 0

MainValidateCustom ==
    /\ pc = "main_validate"
    /\ IF CustomDimensionsError(argv)
       THEN /\ out' = Append(out, Msg("error_custom", 0, 0))
            /\ SysExit(1)
       ELSE /\ pc' = "main_check"
            /\ UNCHANGED <<out, exit_status>>
    /\ UNCHANGED <<entry, argv, npages, call, dpi, dims, prs, i, temp_dir,
                   temp_files, out_file, saves, raised, success>>

\* Lines 332-336.
MainCheckInput ==
    /\ pc = "main_check"
    /\ IF ~Exists(argv.input)
       THEN /\ out' = Append(out, Msg("error_not_found", 0, 0))
            /\ SysExit(1)
       ELSE /\ pc' = "main_dispatch"
            /\ UNCHANGED <<out, exit_status>>
    /\ UNCHANGED <<entry, argv, npages, call, dpi, dims, prs, i, temp_dir,
                   temp_files, out_file, saves, raised, success>>

\* Lines 233-237 and 339-341: pdf_to_pptx_simple(pdf_path, args.output, dpi=300)
\* calls pdf_to_pptx with aspect_ratio="4:3", the dpi, and the defaults of the
\* other parameters (line 129-131).
SimpleCall ==
    [ aspect_ratio |-> "4:3", custom_width |-> None, custom_height |-> None,
      quality |-> "high", dpi |-> <<SimpleDpi>> ]

\* Lines 344-353.
FullCall(a) ==
    [ aspect_ratio |-> a.aspect, custom_width |-> a.width,
      custom_height |-> a.height, quality |-> a.quality, dpi |-> a.dpi ]

\* Lines 338-353.
MainDispatch ==
    /\ pc = "main_dispatch"
    /\ IF argv.simple
       THEN /\ out' = Append(out, Msg("simple_mode", 0, 0))
            /\ call' = SimpleCall
       ELSE /\ call' = FullCall(argv)
            /\ UNCHANGED out
    /\ pc' = "call"
    /\ UNCHANGED <<entry, argv, npages, dpi, dims, prs, i, temp_dir,
                   temp_files, out_file, saves, raised, success,
                   exit_status>>

\* Line 356: sys.exit(0 if success else 1)
MainExit ==
    /\ pc = "returned"
    /\ entry = "cli"
    /\ SysExit(IF success = "True" THEN 0 ELSE 1)
    /\ UNCHANGED <<entry, argv, npages, call, dpi, dims, prs, i, temp_dir,
                   temp_files, out_file, saves, raised, out, success>>

-----------------------------------------------------------------------------
(* A direct call of pdf2pptx.pdf_to_pptx, and the script main.py *)

\* Lines 129-131: the parameters with their defaults; a call that leaves dpi
\* out gets dpi=600.
ApiParams(a) ==
    [ aspect_ratio |-> a.aspect, custom_width |-> a.width,
      custom_height |-> a.height, quality |-> a.quality,
      dpi |-> IF a.dpi_given THEN a.dpi ELSE <<DefaultDpi>> ]

ApiCall ==
    /\ pc = "api_call"
    /\ entry = "api"
    /\ call' = ApiParams(argv)
    /\ pc' = "call"
    /\ UNCHANGED <<entry, argv, npages, dpi, dims, prs, i, temp_dir,
                   temp_files, out_file, saves, raised, out, success,
                   exit_status>>

\* main.py lines 50-51 and 63: a fixed 10 x 7.5 canvas and 300 DPI.
MainPyCall ==
    [ aspect_ratio |-> "4:3", custom_width |-> None, custom_height |-> None,
      quality |-> "high", dpi |-> <<MainPyDpi>> ]

\* main.py lines 99-106.
ScriptStart ==
    /\ pc = "script"
    /\ entry = "main_py"
    /\ IF argv.input \in { "absent", "help" }
       THEN /\ out' = Append(out, Msg("usage", 0, 0))
            /\ SysExit(1)
            /\ UNCHANGED call
       ELSE /\ call' = MainPyCall
            /\ pc' = "call"
            /\ UNCHANGED <<out, exit_status>>
    /\ UNCHANGED <<entry, argv, npages, dpi, dims, prs, i, temp_dir,
                   temp_files, out_file, saves, raised, success>>

\* main.py line 107.
ScriptExit ==
    /\ pc = "returned"
    /\ entry = "main_py"
    /\ SysExit(IF success = "True" THEN 0 ELSE 1)
    /\ UNCHANGED <<entry, argv, npages, call, dpi, dims, prs, i, temp_dir,
                   temp_files, out_file, saves, raised, out, success>>

-----------------------------------------------------------------------------
(* pdf_to_pptx *)

\* page.get_pixmap(dpi=dpi): the page at dpi/72 pixels per point; without a
\* dpi (None or 0) the page is rendered at 72.
get_pixmap(size, d) ==
    LET eff == IF d = None \/ d[1] = 0 THEN 72 ELSE d[1]
    IN  <<(size[1] * eff) \div 72, (size[2] * eff) \div 72>>

\* Lines 204-207: ratio = target_height / img.height;
\* new_width = int(img.width * ratio); img.resize((new_width, target_height)).
Resize(img) == <<(img[1] * target_height) \div img[2], target_height>>

\* A new slide put in front of the others.
add_slide_front(slides) == <<[ pics |-> <<>> ]>> \o slides

\* Line 214: prs.slides.add_slide appends a blank slide.
add_slide(slides) == Append(slides, [ pics |-> <<>> ])

\* add_picture without width and height: the picture keeps its native size,
\* 9525 EMU per pixel.
add_picture_native(page, img, p) ==
    [ src    |-> page,
      img    |-> img,
      left   |-> Inches(0),
      top    |-> Inches(0),
      width  |-> img[1] * 9525,
      height |-> img[2] * 9525 ]

\* Lines 217-220: the picture of file slide-<page>.png at (0, 0) with the
\* slide's width and height.
add_picture(page, img, p) ==
    [ src    |-> page,
      img    |-> img,
      left   |-> Inches(0),
      top    |-> Inches(0),
      width  |-> p.slide_width,
      height |-> p.slide_height ]

\* The slides with a picture added to the shapes of the last one.
WithPicture(slides, pic) ==
    [ slides EXCEPT ![Len(slides)].pics = Append(@, pic) ]

\* pdf2pptx.py lines 148-169: the existence check, the slide dimensions and
\* the dpi.
PdfToPptxBegin ==
    /\ pc = "call"
    /\ entry \in { "cli", "api" }
    /\ IF ~Exists(argv.input)
       THEN /\ out' = Append(out, Msg("error_file_not_found", 0, 0))
            /\ success' = "False"
            /\ pc' = "returned"
            /\ UNCHANGED <<dims, dpi>>
       ELSE /\ dims' = get_slide_dimensions(call.aspect_ratio, call.custom_width,
                                            call.custom_height)
            /\ dpi' = ResolveDpi(call.dpi, call.quality)
            /\ pc' = "with"
            /\ UNCHANGED <<out, success>>
    /\ UNCHANGED <<entry, argv, npages, call, prs, i, temp_dir, temp_files,
                   out_file, saves, raised, exit_status>>

\* main.py lines 28-34, with the canvas of lines 50-51 and the dpi of line 63.
MainPyPdfToPptxBegin ==
    /\ pc = "call"
    /\ entry = "main_py"
    /\ IF ~Exists(argv.input)
       THEN /\ out' = Append(out, Msg("error_file_not_found", 0, 0))
            /\ success' = "False"
            /\ pc' = "returned"
            /\ UNCHANGED <<dims, dpi>>
       ELSE /\ dims' = <<10000, 7500>>
            /\ dpi' = call.dpi
            /\ pc' = "with"
            /\ UNCHANGED <<out, success>>
    /\ UNCHANGED <<entry, argv, npages, call, prs, i, temp_dir, temp_files,
                   out_file, saves, raised, exit_status>>

\* Lines 172-175: with tempfile.TemporaryDirectory() as temp_dir.  When the
\* directory cannot be created the exception leaves pdf_to_pptx at once.
TempDirEnter ==
    /\ pc = "with"
    /\ \E ok \in BOOLEAN :
          IF ok
          THEN /\ temp_dir' = "exists"
               /\ out' = Append(out, Msg("processing", 0, 0))
               /\ pc' = "open"
               /\ UNCHANGED raised
          ELSE /\ pc' = "propagate"
               /\ raised' = Raise("mkdtemp", 0)
               /\ UNCHANGED <<temp_dir, out>>
    /\ UNCHANGED <<entry, argv, npages, call, dpi, dims, prs, i, temp_files,
                   out_file, saves, success, exit_status>>

\* Lines 178-180: fitz.open(pdf_path), which raises on a file it cannot read.
OpenPdf ==
    /\ pc = "open"
    /\ \E ok \in BOOLEAN :
          IF ok
          THEN /\ out' = Append(out, Msg("pdf_pages", npages, 0))
               /\ pc' = "presentation"
               /\ UNCHANGED raised
          ELSE /\ pc' = "raise"
               /\ raised' = Raise("open", 0)
               /\ UNCHANGED out
    /\ UNCHANGED <<entry, argv, npages, call, dpi, dims, prs, i, temp_dir,
                   temp_files, out_file, saves, success, exit_status>>

\* Lines 183-187: the presentation and its slide size, set once before the loop.
NewPresentation ==
    /\ pc = "presentation"
    /\ prs' = [ slide_width  |-> Inches(dims[1]),
                slide_height |-> Inches(dims[2]),
                slides       |-> <<>> ]
    /\ i' = 0
    /\ pc' = "loop"
    /\ UNCHANGED <<entry, argv, npages, call, dpi, dims, temp_dir, temp_files,
                   out_file, saves, raised, out, success, exit_status>>

PageSteps ==
    { "get_pixmap", "frombytes", "resize", "img_save", "add_slide",
      "add_picture" }

\* The progress line: "Page %d/%d" % (_ + 1, len(pdf_doc)) at pdf2pptx.py line
\* 194, and % (i, len(pdf_doc)) at main.py line 59.
Progress(k) ==
    Msg("progress", IF entry = "main_py" THEN k ELSE k + 1, npages)

\* Lines 190-220: one iteration of the page loop.  No step of it is inside a
\* try: the first step that raises ends the loop and leaves the with block.
ProcessPage ==
    /\ pc = "loop"
    /\ i < npages
    /\ out' = Append(out, Progress(i))
    /\ \E size \in PageSizes, fail \in PageSteps \cup { "ok" }, partial \in BOOLEAN :
          LET pix == get_pixmap(size, dpi)
              img == Resize(pix)
          IN  /\ (fail \in { "ok", "img_save", "add_slide", "add_picture" }) => pix[2] > 0
              /\ partial => fail = "img_save"
              /\ temp_files' =
                    IF \/ fail \in { "ok", "add_slide", "add_picture" }
                       \/ (fail = "img_save" /\ partial)
                    THEN temp_files \cup { i } ELSE temp_files
              /\ prs' =
                    CASE fail = "ok" ->
                           [ prs EXCEPT !.slides =
                               WithPicture(add_slide(prs.slides),
                                           add_picture(i, img, prs)) ]
                      [] fail = "add_picture" ->
                           [ prs EXCEPT !.slides = add_slide(prs.slides) ]
                      [] OTHER -> prs
              /\ IF fail = "ok"
                 THEN i' = i + 1 /\ pc' = "loop" /\ UNCHANGED raised
                 ELSE i' = i /\ pc' = "raise" /\ raised' = Raise(fail, i)
    /\ UNCHANGED <<entry, argv, npages, call, dpi, dims, temp_dir, out_file,
                   saves, success, exit_status>>

\* What prs.save writes: the slide size and the slides.
Serialize(p) ==
    [ state |-> "complete", slide_width |-> p.slide_width,
      slide_height |-> p.slide_height, slides |-> p.slides ]

\* The save indented into the loop body: the file is written after each page.
SavePresentation_in_loop ==
    /\ pc = "loop"
    /\ saves <= npages
    /\ saves' = saves + 1
    /\ out_file' = Serialize(prs)
    /\ IF i >= npages
       THEN /\ out' = out \o << Msg("output_file", 0, 0),
                               Msg("completed", 0, 0) >>
            /\ pc' = "with_exit"
       ELSE UNCHANGED <<out, pc>>
    /\ UNCHANGED <<entry, argv, npages, call, dpi, dims, prs, i, temp_dir,
                   temp_files, raised, success, exit_status>>

\* Lines 222-229: after the loop, close the PDF, save the presentation and
\* print the completion messages.  A failing save raises before the prints;
\* it may leave a partial file behind.
SavePresentation ==
    /\ pc = "loop"
    /\ i >= npages
    /\ saves' = saves + 1
    /\ \E ok \in BOOLEAN, partial \in BOOLEAN :
          IF ok
          THEN /\ ~partial
               /\ out_file' = Serialize(prs)
               /\ UNCHANGED raised
               /\ out' = out \o << Msg("output_file", 0, 0),
                                   Msg("completed", 0, 0) >>
               /\ pc' = "with_exit"
          ELSE /\ out_file' = IF partial
                              THEN [ out_file EXCEPT !.state = "partial" ]
                              ELSE out_file
               /\ raised' = Raise("save", 0)
               /\ pc' = "raise"
               /\ UNCHANGED out
    /\ UNCHANGED <<entry, argv, npages, call, dpi, dims, prs, i, temp_dir,
                   temp_files, success, exit_status>>

\* TemporaryDirectory.__exit__: the directory and what is in it are removed.
Cleanup(d) == "removed"

\* Lines 172 and 231: the with block ends normally, then return True.
WithExit ==
    /\ pc = "with_exit"
    /\ temp_dir' = Cleanup(temp_dir)
    /\ temp_files' = {}
    /\ success' = "True"
    /\ pc' = "returned"
    /\ UNCHANGED <<entry, argv, npages, call, dpi, dims, prs, i, out_file,
                   saves, raised, out, exit_status>>

\* A directory removed by hand after the block, which an exception skips.
WithExitRaise_no_cleanup ==
    /\ pc = "raise"
    /\ pc' = "propagate"
    /\ UNCHANGED <<entry, argv, npages, call, dpi, dims, prs, i, temp_dir,
                   temp_files, out_file, saves, raised, out, success,
                   exit_status>>

\* Line 172: an exception leaves the with block; the directory is removed and
\* the exception goes on to the caller of pdf_to_pptx.
WithExitRaise ==
    /\ pc = "raise"
    /\ temp_dir' = Cleanup(temp_dir)
    /\ temp_files' = {}
    /\ pc' = "propagate"
    /\ UNCHANGED <<entry, argv, npages, call, dpi, dims, prs, i, out_file,
                   saves, raised, out, success, exit_status>>

\* Neither main() (lines 339-356) nor main.py (lines 106-107) catches the
\* exception: the interpreter prints the traceback and exits with status 1.
UncaughtException ==
    /\ pc = "propagate"
    /\ entry \in { "cli", "main_py" }
    /\ out' = Append(out, Msg("traceback", 0, 0))
    /\ SysExit(1)
    /\ UNCHANGED <<entry, argv, npages, call, dpi, dims, prs, i, temp_dir,
                   temp_files, out_file, saves, raised, success>>

-----------------------------------------------------------------------------

Next ==
    \/ MainParseArgs
    \/ MainListAspects
    \/ MainValidateCustom
    \/ MainCheckInput
    \/ MainDispatch
    \/ MainExit
    \/ ApiCall
    \/ ScriptStart
    \/ ScriptExit
    \/ PdfToPptxBegin
    \/ MainPyPdfToPptxBegin
    \/ TempDirEnter
    \/ OpenPdf
    \/ NewPresentation
    \/ ProcessPage
    \/ SavePresentation
    \/ WithExit
    \/ WithExitRaise
    \/ UncaughtException

Spec == Init /\ [][Next]_vars

-----------------------------------------------------------------------------
(* Properties *)

Kinds(log) == { log[k].kind : k \in 1 .. Len(log) }

\* pdf_to_pptx, or the process that ran it, has ended.
Ended == pc \in { "returned", "propagate", "exited" }

\* The slides of a written document, one picture each, are the pages in order.
InPageOrder(slides) ==
    \A k \in 1 .. Len(slides) :
        /\ Len(slides[k].pics) = 1
        /\ slides[k].pics[1].src = k - 1

\* C1: a completed run of pdf_to_pptx on a PDF of N pages leaves an output
\* presentation of exactly N slides, the k-th slide holding the image
\* rendered from the k-th page.
C1_SlidesMatchPages ==
    success = "True" =>
        /\ out_file.state = "complete"
        /\ Len(out_file.slides) = npages
        /\ InPageOrder(out_file.slides)

C1_Witness ==
    /\ success = "True"
    /\ npages >= 2
    /\ Len(out_file.slides) = npages
    /\ out_file.slides[2].pics[1].src = 1

\* C2: when the rasterization of one page throws, the error is caught and
\* logged with the 1-based page number, the page's slide is left out, the
\* other pages are converted, the output is written and the run reports
\* success.
C2_PageFailureIsolated ==
    (Ended /\ raised.step = "get_pixmap") =>
        /\ success = "True"
        /\ Msg("error_page", raised.page + 1, 0) \in
              { out[k] : k \in 1 .. Len(out) }
        /\ out_file.state = "complete"
        /\ Len(out_file.slides) = npages - 1

\* C3: once the conversion call has ended, normally or by an exception of any
\* step inside it, its scratch directory does not exist.
C3_ScratchRemoved ==
    Ended => (temp_dir # "exists" /\ temp_files = {})

C3_Witness ==
    /\ pc = "propagate"
    /\ raised.step = "add_picture"
    /\ raised.page = 1
    /\ temp_dir = "removed"

\* The DPI of each quality tier, as the claim gives it.
TierDpi(q) ==
    CASE q = "low"    -> 150
      [] q = "medium" -> 300
      [] q = "high"   -> 600
      [] q = "ultra"  -> 1200

\* C4: without an explicit DPI the rendering DPI is the one of the quality
\* tier, with an explicit DPI it is that value; through the command line
\* (not in simple mode) and in a direct call of pdf_to_pptx.
C4_EffectiveDpi ==
    ( /\ pc = "with"
      /\ entry \in { "cli", "api" }
      /\ ~argv.simple
      /\ argv.quality \in Tiers ) =>
        IF argv.dpi = None
        THEN dpi = <<TierDpi(argv.quality)>>
        ELSE dpi = argv.dpi

\* The input errors of a command line: the named PDF does not exist, or the
\* aspect is "custom" and width or height is missing or not above 0.
InputError(a) ==
    \/ a.input = "missing.pdf"
    \/ /\ a.aspect = "custom"
       /\ \/ a.width = None
          \/ a.height = None
          \/ a.width[1] <= 0
          \/ a.height[1] <= 0

NoProcessing ==
    /\ pc \in { "main", "main_list", "main_validate", "main_check", "exited" }
    /\ temp_dir = "none"
    /\ temp_files = {}
    /\ prs = NoPrs
    /\ i = 0
    /\ saves = 0
    /\ out_file.state = "absent"

\* A command line parse_args accepts: it names an input path and its option
\* values are among the choices.
Parsed(a) == a.input # "absent" /\ a.aspect \in argparse_aspect_choices

\* C5 as stated: on an input error of an accepted command line the process
\* exits with status 1 and no scratch directory is made, no page rendered, no
\* output file written.
C5_Original ==
    (entry = "cli" /\ Parsed(argv) /\ InputError(argv)) =>
        /\ NoProcessing
        /\ pc = "exited" => exit_status = <<1>>

\* C5 amended: the same, for an accepted command line without --list-aspects.
C5_InputErrorsExitOne ==
    ( /\ entry = "cli"
      /\ Parsed(argv)
      /\ ~argv.list_aspects
      /\ InputError(argv) ) =>
        /\ NoProcessing
        /\ pc = "exited" => exit_status = <<1>>

C5_Witness ==
    /\ entry = "cli"
    /\ argv.input = "doc.pdf"
    /\ ~argv.list_aspects
    /\ argv.aspect = "custom"
    /\ argv.width = <<0>>
    /\ argv.height = <<6000>>
    /\ pc = "exited"
    /\ exit_status = <<1>>

\* The canvas in EMU as the claim gives it: the table entry of the keyword,
\* or the explicit width and height of "custom".
RequestedCanvas(c) ==
    CASE c.aspect_ratio \in { "4:3", "standard" } -> <<9144000, 6858000>>
      [] c.aspect_ratio \in { "16:9", "wide" }     -> <<12191695, 6858000>>
      [] c.aspect_ratio = "16:10"                  -> <<11887200, 7429500>>
      [] c.aspect_ratio = "a4"                     -> <<10689336, 7562088>>
      [] c.aspect_ratio = "letter"                 -> <<10058400, 7772400>>
      [] c.aspect_ratio = "square"                 -> <<9144000, 9144000>>
      [] c.aspect_ratio = "portrait"               -> <<6858000, 9144000>>
      [] OTHER -> <<Inches(c.custom_width[1]), Inches(c.custom_height[1])>>

Requested(c) ==
    \/ c.aspect_ratio \in DOMAIN ratios
    \/ c.aspect_ratio = "custom" /\ Truthy(c.custom_width) /\ Truthy(c.custom_height)

FullBleed(p) ==
    \A k \in 1 .. Len(p.slides) :
        \A n \in 1 .. Len(p.slides[k].pics) :
            LET pic == p.slides[k].pics[n]
            IN  /\ pic.left = 0
                /\ pic.top = 0
                /\ pic.width = p.slide_width
                /\ pic.height = p.slide_height

C6_State ==
    /\ (pc \in { "loop", "with_exit", "raise" } /\ raised.step # "open" /\ Requested(call)) =>
          <<prs.slide_width, prs.slide_height>> = RequestedCanvas(call)
    /\ FullBleed(prs)
    /\ out_file.state = "complete" =>
          /\ FullBleed(out_file)
          /\ \A k \in 1 .. Len(out_file.slides) : Len(out_file.slides[k].pics) = 1
          /\ Requested(call) =>
                <<out_file.slide_width, out_file.slide_height>> = RequestedCanvas(call)

C6_SetOnce ==
    pc # "presentation" =>
        /\ prs'.slide_width = prs.slide_width
        /\ prs'.slide_height = prs.slide_height

\* C6: the canvas of a document is set once, to the size of the requested
\* aspect keyword or the explicit width and height of "custom"; every slide
\* holds one picture, at (0, 0), as wide and as high as the canvas.
C6_FullBleedCanvas == [](C6_State) /\ [][C6_SetOnce]_vars

C6_Witness ==
    /\ out_file.state = "complete"
    /\ call.aspect_ratio = "custom"
    /\ Len(out_file.slides) >= 2
    /\ out_file.slide_width = 7315200
    /\ out_file.slides[1].pics[1].img # out_file.slides[2].pics[1].img

\* C7 as stated: a keyword outside the table gives the default 9.0 x 7.5.
C7_Original ==
    ( /\ pc = "with"
      /\ entry = "api"
      /\ call.aspect_ratio \notin argparse_aspect_choices ) =>
        dims = <<9000, 7500>>

\* C7 amended: a keyword that is not in the table, and "custom" without both
\* a width and a height, gives the 4:3 default, which is 10.0 x 7.5.
C7_UnknownKeywordDefault ==
    ( /\ pc = "with"
      /\ entry = "api"
      /\ call.aspect_ratio \notin DOMAIN ratios
      /\ ~Requested(call) ) =>
        dims = <<10000, 7500>>

C7_Witness ==
    /\ pc = "with"
    /\ entry = "api"
    /\ call.aspect_ratio = "3:2"
    /\ dims = <<10000, 7500>>

\* C8: with --simple the run goes on to the conversion with the 4:3 canvas
\* and 300 DPI whatever --aspect, --width, --height, --quality and --dpi are,
\* and none of them makes it exit with an error.
C8_SimpleSkipsFlags ==
    ( /\ entry = "cli"
      /\ argv.simple
      /\ ~argv.list_aspects
      /\ argv.input = "doc.pdf"
      /\ argv.aspect \in argparse_aspect_choices ) =>
        /\ "error_custom" \notin Kinds(out)
        /\ pc = "with" => (dims = <<10000, 7500>> /\ dpi = <<300>>)
        /\ pc = "exited" => temp_dir = "removed"

\* C9: a run with --list-aspects prints the table and exits with status 0
\* without touching the input or output path or converting, whatever the
\* other arguments are, an absent input path included.
C9_ListAspectsExitsZero ==
    ( /\ entry = "cli"
      /\ argv.list_aspects
      /\ argv.aspect \in argparse_aspect_choices
      /\ pc = "exited" ) =>
        /\ exit_status = <<0>>
        /\ "aspect_table" \in Kinds(out)
        /\ call = NoCall
        /\ temp_dir = "none"
        /\ out_file.state = "absent"

C10_State ==
    /\ saves <= 1
    /\ saves = 1 => (i = npages /\ Len(prs.slides) = npages /\ temp_dir # "none")
    /\ success = "True" => (saves = 1 /\ out_file.state = "complete")
    /\ raised.step = "save" =>
          /\ "completed" \notin Kinds(out)
          /\ success # "True"
          /\ pc = "exited" => exit_status = <<1>>

C10_Step ==
    saves' # saves =>
        /\ saves' = saves + 1
        /\ i = npages
        /\ Len(prs.slides) = npages
        /\ temp_dir = "exists"
        /\ temp_dir' = "exists"

\* C10: the presentation is written once, after every page of the loop and
\* before the scratch directory is removed; when that write fails the run
\* prints no completion message, does not return success, and the process
\* ends with a non-zero status.
C10_WriteOnceAtEnd == [](C10_State) /\ [][C10_Step]_vars

C10_Witness ==
    /\ raised.step = "save"
    /\ npages >= 2
    /\ pc = "exited"
    /\ exit_status = <<1>>
    /\ temp_dir = "removed"

====
